---- MODULE Spec2Model ----
(***************************************************************************)
(* Model of the financial-crises pipeline:                                 *)
(*   src/src/features.py        compute_features                           *)
(*   src/src/crisis_windows.py  CRISES, label_crisis_periods               *)
(*   src/src/analysis.py        regime_summary, run_analysis               *)
(*   src/main.py                main (the order of the stages)             *)
(*                                                                         *)
(* A DataFrame is a sequence of rows (records); its index is the Date      *)
(* field of each row.  A float cell is a record tagged by k:               *)
(*   [k |-> "nan"]                    NaN / missing                        *)
(*   [k |-> "inf", s |-> 1 or -1]     +inf / -inf                          *)
(*   [k |-> "rat", n |-> n, d |-> d]  the finite number n/d (d > 0)        *)
(*   [k |-> "ln",  n |-> n, d |-> d]  the finite number ln(n/d)            *)
(*   [k |-> "std", w |-> <<...>>]     the sample std of a full window      *)
(*   [k |-> "sqrt", of |-> v]         the square root of the rational v    *)
(* and a non-numeric cell of a CSV column is [k |-> "str", s |-> "..."].   *)
(* A date is the integer yyyymmdd; NaT is a value no comparison accepts.   *)
(***************************************************************************)
EXTENDS Integers, Sequences, FiniteSets

VARIABLES pc, raw_data, data_with_features, labelled_data,
          CRISES, pre_crisis_months, post_crisis_months,
          summaries, combined

vars == <<pc, raw_data, data_with_features, labelled_data,
          CRISES, pre_crisis_months, post_crisis_months,
          summaries, combined>>

(***************************************************************************)
(* Bounds of the model.                                                    *)
(***************************************************************************)
MaxRows == 2
MaxCrises == 2
MaxMonths == 1

(***************************************************************************)
(* Float cells.                                                            *)
(***************************************************************************)
NaN == [k |-> "nan"]
Inf(sign) == [k |-> "inf", s |-> sign]
Str(text) == [k |-> "str", s |-> text]

Abs(x) == IF x < 0 THEN -x ELSE x

RECURSIVE GCD(_, _)
GCD(a, b) == IF b = 0 THEN a ELSE GCD(b, a % b)

\* the finite number n/d, d # 0, in lowest terms with a positive denominator
Rat(n, d) ==
    LET g == GCD(Abs(n), Abs(d))
        sg == IF d < 0 THEN -1 ELSE 1
    IN [k |-> "rat", n |-> (sg * n) \div g, d |-> Abs(d) \div g]

Num(n) == Rat(n, 1)

IsNaN(x) == x.k = "nan"
IsRat(x) == x.k = "rat"
IsFinite(x) == x.k \in {"rat", "ln", "std"}

\* a < b, a <= b on finite rationals
RatLt(a, b) == a.n * b.d < b.n * a.d
RatLe(a, b) == a.n * b.d <= b.n * a.d
RatAdd(a, b) == Rat(a.n * b.d + b.n * a.d, a.d * b.d)
RatSub(a, b) == Rat(a.n * b.d - b.n * a.d, a.d * b.d)
RatMul(a, b) == Rat(a.n * b.n, a.d * b.d)

(***************************************************************************)
(* features.py                                                             *)
(***************************************************************************)
Window == 30

\* pd.to_numeric(..., errors="coerce") on one cell: a cell that is not a
\* number becomes NaN, a number stays
ToNumeric(x) == IF x.k = "str" THEN NaN ELSE x

\* np.log on one cell: NaN for NaN and for a negative number, -inf for 0
Log(x) ==
    IF ~IsRat(x) THEN NaN
    ELSE IF x.n < 0 THEN NaN
    ELSE IF x.n = 0 THEN Inf(-1)
    ELSE LET g == GCD(x.n, x.d) IN [k |-> "ln", n |-> x.n \div g, d |-> x.d \div g]

\* a - b on the cells np.log produces (IEEE: inf - inf is NaN)
LogSub(a, b) ==
    IF IsNaN(a) \/ IsNaN(b) THEN NaN
    ELSE IF a.k = "inf" /\ b.k = "inf"
         THEN (IF a.s = b.s THEN NaN ELSE Inf(a.s))
    ELSE IF a.k = "inf" THEN Inf(a.s)
    ELSE IF b.k = "inf" THEN Inf(-b.s)
    ELSE LET n == a.n * b.d
             d == a.d * b.n
             g == GCD(n, d)
         IN [k |-> "ln", n |-> n \div g, d |-> d \div g]

\* Series.diff(): row 1 has no previous row
Diff(col) ==
    [i \in 1..Len(col) |-> IF i = 1 THEN NaN ELSE LogSub(col[i], col[i - 1])]

\* Series.rolling(window=Window).std(): NaN until the window holds Window
\* values, and whenever one of them is not a finite number
RollingStd(col) ==
    [i \in 1..Len(col) |->
        IF i < Window THEN NaN
        ELSE IF \E j \in (i - Window + 1)..i : ~IsFinite(col[j]) THEN NaN
        ELSE [k |-> "std", w |-> SubSeq(col, i - Window + 1, i)]]

\* the running maximum of the numbers of col[1..i], NaN when there is none
RECURSIVE MaxUpTo(_, _)
MaxUpTo(col, i) ==
    IF i = 0 THEN NaN
    ELSE LET m == MaxUpTo(col, i - 1)
         IN IF IsNaN(col[i]) THEN m
            ELSE IF IsNaN(m) THEN col[i]
            ELSE IF RatLt(m, col[i]) THEN col[i] ELSE m

\* Series.cummax() (skipna=True): a NaN cell stays NaN and does not update
\* the running maximum
CumMax(col) ==
    [i \in 1..Len(col) |->
        IF IsNaN(col[i]) THEN NaN ELSE MaxUpTo(col, i)]

\* a / b on float cells holding numbers or NaN (IEEE division)
Div(a, b) ==
    IF IsNaN(a) \/ IsNaN(b) THEN NaN
    ELSE IF b.n = 0
         THEN (IF a.n = 0 THEN NaN ELSE Inf(IF a.n > 0 THEN 1 ELSE -1))
    ELSE Rat(a.n * b.d, a.d * b.n)

Sub(a, b) == IF IsNaN(a) \/ IsNaN(b) THEN NaN ELSE RatSub(a, b)

Column(df, c) == [i \in 1..Len(df) |-> df[i][c]]

\* fields f of record r replaced/added: df[col] = value
SetCols(r, new) ==
    [c \in DOMAIN r \cup DOMAIN new |-> IF c \in DOMAIN new THEN new[c] ELSE r[c]]

\* the body of compute_features' loop for one DataFrame
FeatureFrame(df) ==
    LET close == [i \in 1..Len(df) |-> ToNumeric(df[i].Close)]
        logret == Diff([i \in 1..Len(df) |-> Log(close[i])])
        vol == RollingStd(logret)
        peak == CumMax(close)
    IN [i \in 1..Len(df) |->
           SetCols(df[i],
                   [Close |-> close[i],
                    log_return |-> logret[i],
                    vol_30d |-> vol[i],
                    peak |-> peak[i],
                    drawdown |-> Div(Sub(close[i], peak[i]), peak[i])])]

\* what the caller's DataFrame holds once the loop body has written the frame
\* `written`: the body works on df.copy(), so the caller's frame keeps its cells
CallerFrameShared(df, written) == written
CallerFrame(df, written) == df

\* compute_features: a new dict with the same keys
FeaturesOf(data) == [name \in DOMAIN data |-> FeatureFrame(data[name])]

(***************************************************************************)
(* Dates and pd.DateOffset(months=...)                                     *)
(***************************************************************************)
NaT == -1

Year(date) == date \div 10000
Month(date) == (date \div 100) % 100
Day(date) == date % 100
MkDate(y, m, d) == y * 10000 + m * 100 + d

IsLeap(y) == (y % 4 = 0 /\ y % 100 # 0) \/ y % 400 = 0

DaysInMonth(y, m) ==
    IF m = 2 THEN (IF IsLeap(y) THEN 29 ELSE 28)
    ELSE IF m \in {4, 6, 9, 11} THEN 30 ELSE 31

\* date + pd.DateOffset(months=k): the month moves by k, the day of the month
\* is kept unless the target month is shorter
AddMonths(date, k) ==
    LET total == Year(date) * 12 + (Month(date) - 1) + k
        y == total \div 12
        m == (total % 12) + 1
        dim == DaysInMonth(y, m)
    IN MkDate(y, m, IF Day(date) > dim THEN dim ELSE Day(date))

NextDay(date) ==
    IF Day(date) < DaysInMonth(Year(date), Month(date)) THEN date + 1
    ELSE IF Month(date) < 12 THEN MkDate(Year(date), Month(date) + 1, 1)
    ELSE MkDate(Year(date) + 1, 1, 1)

\* comparisons of the DatetimeIndex with a Timestamp: NaT compares False
DateGe(a, b) == a # NaT /\ b # NaT /\ a >= b
DateGt(a, b) == a # NaT /\ b # NaT /\ a > b
DateLe(a, b) == a # NaT /\ b # NaT /\ a <= b
DateLt(a, b) == a # NaT /\ b # NaT /\ a < b

(***************************************************************************)
(* crisis_windows.py                                                       *)
(***************************************************************************)
DefaultCrises ==
    << [name |-> "dotcom_bubble", start |-> 20000301, end |-> 20021031],
       [name |-> "global_financial_crisis", start |-> 20071001, end |-> 20090331],
       [name |-> "european_debt_crisis", start |-> 20110701, end |-> 20121231],
       [name |-> "covid_crash", start |-> 20200215, end |-> 20200430] >>

DefaultPreCrisisMonths == 6
DefaultPostCrisisMonths == 6

None == "None"

PreStart(crisis, pre_months) == AddMonths(crisis.start, -pre_months)
PostEnd(crisis, post_months) == AddMonths(crisis.end, post_months)

CrisisMaskEndExclusive(date, crisis) ==
    DateGe(date, crisis.start) /\ DateLt(date, crisis.end)
CrisisMask(date, crisis) ==
    DateGe(date, crisis.start) /\ DateLe(date, crisis.end)
PreMask(date, crisis, pre_months) ==
    DateGe(date, PreStart(crisis, pre_months)) /\ DateLt(date, crisis.start)
PostMask(date, crisis, post_months) ==
    DateGt(date, crisis.end) /\ DateLe(date, PostEnd(crisis, post_months))

\* the initial labels of a row
InitLabels(row) ==
    SetCols(row, [regime |-> "normal", crisis_name |-> None,
                  is_crisis |-> 0, is_pre_crisis |-> 0, is_high_risk |-> 0])

\* one df.loc[mask, ...] = ... group of assignments, seen from one row
AssignFirstOnly(row, mask, new) ==
    IF mask /\ row.regime = "normal" THEN SetCols(row, new) ELSE row
Assign(row, mask, new) == IF mask THEN SetCols(row, new) ELSE row

\* the body of the loop over the crises, for one row: crisis, pre, post
ApplyCrisis(row, crisis, pre_months, post_months) ==
    LET r1 == Assign(row, CrisisMask(row.Date, crisis),
                     [regime |-> "crisis", crisis_name |-> crisis.name,
                      is_crisis |-> 1])
        r2 == Assign(r1, PreMask(row.Date, crisis, pre_months),
                     [regime |-> "pre_crisis", crisis_name |-> crisis.name,
                      is_pre_crisis |-> 1])
    IN Assign(r2, PostMask(row.Date, crisis, post_months),
              [regime |-> "post_crisis", crisis_name |-> crisis.name])

\* the loop over crises[1..n], in the order of the list
RECURSIVE ApplyCrises(_, _, _, _, _)
ApplyCrises(row, crises, n, pre_months, post_months) ==
    IF n = 0 THEN row
    ELSE ApplyCrisis(ApplyCrises(row, crises, n - 1, pre_months, post_months),
                     crises[n], pre_months, post_months)

\* df["is_crisis"] | df["is_pre_crisis"] on 0/1 cells
HighRiskCrisisOnly(row) == row.is_crisis
HighRiskStale(row) == row.is_high_risk
HighRisk(row) == IF row.is_crisis = 1 \/ row.is_pre_crisis = 1 THEN 1 ELSE 0

\* the body of label_crisis_periods' loop for one DataFrame
LabelFrame(df, crises, pre_months, post_months) ==
    [i \in 1..Len(df) |->
        LET r == ApplyCrises(InitLabels(df[i]), crises, Len(crises),
                             pre_months, post_months)
        IN SetCols(r, [is_high_risk |-> HighRisk(r)])]

LabelsOf(data, crises, pre_months, post_months) ==
    [name \in DOMAIN data |-> LabelFrame(data[name], crises, pre_months, post_months)]

(***************************************************************************)
(* analysis.py                                                             *)
(***************************************************************************)
\* the keys of INDICES in the order load_indices inserts them in the dict
INDICES == <<"SP500", "NASDAQ", "STOXX50", "FTSE100">>

\* groupby("regime") sorts its keys
RegimeOrder == <<"crisis", "normal", "post_crisis", "pre_crisis">>

ValueColumns == <<"log_return", "vol_30d", "drawdown">>

\* the cells of column col in the rows of df[1..n] whose regime is g, NaN
\* cells skipped: the values one aggregation sees
RECURSIVE GroupValues(_, _, _, _)
GroupValues(df, g, col, n) ==
    IF n = 0 THEN <<>>
    ELSE LET rest == GroupValues(df, g, col, n - 1)
         IN IF df[n].regime = g /\ ~IsNaN(df[n][col])
            THEN Append(rest, df[n][col]) ELSE rest

RECURSIVE SumOf(_, _)
SumOf(xs, n) == IF n = 0 THEN Num(0) ELSE RatAdd(SumOf(xs, n - 1), xs[n])

RECURSIVE SumSqOf(_, _)
SumSqOf(xs, n) ==
    IF n = 0 THEN Num(0) ELSE RatAdd(SumSqOf(xs, n - 1), RatMul(xs[n], xs[n]))

RECURSIVE MinOf(_, _)
MinOf(xs, n) ==
    IF n = 1 THEN xs[1]
    ELSE LET m == MinOf(xs, n - 1) IN IF RatLt(xs[n], m) THEN xs[n] ELSE m

RECURSIVE MaxOf(_, _)
MaxOf(xs, n) ==
    IF n = 1 THEN xs[1]
    ELSE LET m == MaxOf(xs, n - 1) IN IF RatLt(m, xs[n]) THEN xs[n] ELSE m

Mean(xs) ==
    IF Len(xs) = 0 THEN NaN ELSE RatMul(SumOf(xs, Len(xs)), Rat(1, Len(xs)))

\* the sample standard deviation (ddof = 1), kept as the square root of the
\* exact variance; NaN with fewer than two values
Std(xs) ==
    LET n == Len(xs)
        s == SumOf(xs, n)
    IN IF n < 2 THEN NaN
       ELSE [k |-> "sqrt",
             of |-> RatMul(RatSub(SumSqOf(xs, n), RatMul(RatMul(s, s), Rat(1, n))),
                           Rat(1, n - 1))]

\* .agg(["mean", "std", "min", "max"]) of one column of one group
Agg(xs) ==
    [mean |-> Mean(xs), std |-> Std(xs),
     min |-> IF Len(xs) = 0 THEN NaN ELSE MinOf(xs, Len(xs)),
     max |-> IF Len(xs) = 0 THEN NaN ELSE MaxOf(xs, Len(xs))]

HasRegime(df, g) == \E i \in 1..Len(df) : df[i].regime = g

\* regime_summary(df): one row per regime present in df, in sorted order
RECURSIVE SummaryRows(_, _)
SummaryRows(df, n) ==
    IF n = 0 THEN <<>>
    ELSE LET g == RegimeOrder[n]
             rest == SummaryRows(df, n - 1)
         IN IF HasRegime(df, g)
            THEN Append(rest,
                        [regime |-> g,
                         log_return |-> Agg(GroupValues(df, g, "log_return", Len(df))),
                         vol_30d |-> Agg(GroupValues(df, g, "vol_30d", Len(df))),
                         drawdown |-> Agg(GroupValues(df, g, "drawdown", Len(df)))])
            ELSE rest

regime_summary(df) == SummaryRows(df, Len(RegimeOrder))

\* flat = summary.copy(); flat["index"] = name
Flat(summary, name) ==
    [i \in 1..Len(summary) |-> SetCols(summary[i], [index |-> name])]

\* the rows of all the frames of data, frames taken in dict order
RECURSIVE ConcatFrames(_, _)
ConcatFrames(data, n) ==
    IF n = 0 THEN <<>>
    ELSE IF INDICES[n] \in DOMAIN data
         THEN ConcatFrames(data, n - 1) \o data[INDICES[n]]
         ELSE ConcatFrames(data, n - 1)

\* all_summaries after the loop over labelled_data.items(), concatenated
RECURSIVE ConcatSummaries(_, _)
ConcatSummaries(data, n) ==
    IF n = 0 THEN <<>>
    ELSE IF INDICES[n] \in DOMAIN data
         THEN ConcatSummaries(data, n - 1)
                  \o Flat(regime_summary(data[INDICES[n]]), INDICES[n])
         ELSE ConcatSummaries(data, n - 1)

\* the table written to all_indices_regime_summary.csv
CombinedGrouped(data) ==
    Flat(regime_summary(ConcatFrames(data, Len(INDICES))), "all")
CombinedOf(data) == ConcatSummaries(data, Len(INDICES))

(***************************************************************************)
(* The inputs of the model.                                                *)
(***************************************************************************)
Names == {"SP500", "NASDAQ"}

\* the Close cells of a raw CSV column
PriceSet == {NaN, Str("abc"), Num(-2), Num(-1), Num(0), Num(1)}

\* consecutive days around the start of the last crisis of CRISES
RECURSIVE PriceDate(_)
PriceDate(i) == IF i = 1 THEN 20200214 ELSE NextDay(PriceDate(i - 1))

PriceFrames ==
    UNION { { [i \in 1..n |->
                 [Date |-> PriceDate(i), Close |-> closes[i], Volume |-> Num(100 + i)]]
              : closes \in [1..n -> PriceSet] }
            : n \in 0..MaxRows }

\* the dates a synthetic calendar and its series are made of
DateSet == {20200131, 20200215, 20200229, 20200331}

RECURSIVE SortedDates(_)
SortedDates(S) ==
    IF S = {} THEN <<>>
    ELSE LET m == CHOOSE x \in S : \A y \in S : x <= y
         IN <<m>> \o SortedDates(S \ {m})

\* one row per date of DateSet, then a row whose date did not parse (NaT
\* sorts last)
CalendarFrame ==
    LET ds == SortedDates(DateSet) \o <<NaT>>
    IN [i \in 1..Len(ds) |->
           [Date |-> ds[i], Close |-> Num(i), Volume |-> Num(100 + i)]]

CrisisNames == <<"c1", "c2", "c3", "c4">>

Calendars ==
    UNION { { [i \in 1..n |->
                 [name |-> CrisisNames[i], start |-> b[i][1], end |-> b[i][2]]]
              : b \in [1..n -> DateSet \X DateSet] }
            : n \in 0..MaxCrises }

\* labelled rows with rational cells, for the aggregation
AnalysisRows ==
    { [Date |-> 20200214, Close |-> Num(1), regime |-> g,
       log_return |-> v, vol_30d |-> NaN,
       drawdown |-> IF IsNaN(v) THEN Num(0) ELSE Rat(-v.n, 2)]
      : g \in {"normal", "crisis"}, v \in {NaN, Num(1), Num(2)} }

AnalysisFrames ==
    UNION { [1..n -> AnalysisRows] : n \in 0..MaxRows }

NoData == [name \in {} |-> <<>>]
NoCombined == [written |-> FALSE, rows |-> <<>>]

(***************************************************************************)
(* The stages of main() up to the labels: compute_features, then           *)
(* label_crisis_periods, from the frames and the calendar handed to them.  *)
(***************************************************************************)
\* prices vary, the calendar is the program's own
InitPrices ==
    /\ raw_data \in UNION { [D -> PriceFrames] : D \in (SUBSET Names) \ {{}} }
    /\ CRISES = DefaultCrises
    /\ pre_crisis_months = DefaultPreCrisisMonths
    /\ post_crisis_months = DefaultPostCrisisMonths

\* the calendar and the buffers vary, the series covers every date
InitCalendar ==
    /\ raw_data = [name \in {"SP500"} |-> CalendarFrame]
    /\ CRISES \in Calendars
    /\ pre_crisis_months \in 0..MaxMonths
    /\ post_crisis_months \in 0..MaxMonths

Init ==
    /\ pc = "loaded"
    /\ InitPrices \/ InitCalendar
    /\ data_with_features = NoData
    /\ labelled_data = NoData
    /\ summaries = NoData
    /\ combined = NoCombined

ComputeFeatures ==
    /\ pc = "loaded"
    /\ data_with_features' = FeaturesOf(raw_data)
    /\ raw_data' = [name \in DOMAIN raw_data |->
                       CallerFrame(raw_data[name], FeatureFrame(raw_data[name]))]
    /\ pc' = "featured"
    /\ UNCHANGED <<labelled_data, CRISES, pre_crisis_months, post_crisis_months,
                   summaries, combined>>

LabelCrisisPeriods ==
    /\ pc = "featured"
    /\ labelled_data' =
           LabelsOf(data_with_features, CRISES, pre_crisis_months, post_crisis_months)
    /\ data_with_features' =
           [name \in DOMAIN data_with_features |->
               CallerFrame(data_with_features[name],
                           LabelFrame(data_with_features[name], CRISES,
                                      pre_crisis_months, post_crisis_months))]
    /\ pc' = "labelled"
    /\ UNCHANGED <<raw_data, CRISES, pre_crisis_months, post_crisis_months,
                   summaries, combined>>

Next == ComputeFeatures \/ LabelCrisisPeriods

Spec == Init /\ [][Next]_vars

(***************************************************************************)
(* run_analysis, from labelled frames whose cells are rationals (the       *)
(* aggregates of logarithms have no exact form).                           *)
(***************************************************************************)
InitAnalysis ==
    /\ pc = "labelled"
    /\ labelled_data \in UNION { [D -> AnalysisFrames] : D \in SUBSET Names }
    /\ raw_data = NoData
    /\ data_with_features = NoData
    /\ CRISES = DefaultCrises
    /\ pre_crisis_months = DefaultPreCrisisMonths
    /\ post_crisis_months = DefaultPostCrisisMonths
    /\ summaries = NoData
    /\ combined = NoCombined

RunAnalysis ==
    /\ pc = "labelled"
    /\ summaries' = [name \in DOMAIN labelled_data |-> regime_summary(labelled_data[name])]
    /\ combined' = IF DOMAIN labelled_data # {}
                   THEN [written |-> TRUE, rows |-> CombinedOf(labelled_data)]
                   ELSE combined
    /\ pc' = "analysed"
    /\ UNCHANGED <<raw_data, data_with_features, labelled_data, CRISES,
                   pre_crisis_months, post_crisis_months>>

NextAnalysis == RunAnalysis

SpecAnalysis == InitAnalysis /\ [][NextAnalysis]_vars

(***************************************************************************)
(* Properties of label_crisis_periods.                                     *)
(***************************************************************************)
Labelled == pc = "labelled"

\* the rows of the labelled frames, as (series name, row number) pairs
LabelledRows ==
    UNION { { <<name, i>> : i \in 1..Len(labelled_data[name]) }
            : name \in DOMAIN labelled_data }
RowAt(p) == labelled_data[p[1]][p[2]]

\* the masks in the order label_crisis_periods applies them: mask j belongs
\* to interval (j + 2) \div 3 and is its crisis (1), pre (2) or post (3) mask
MaskNumbers == 1..(3 * Len(CRISES))
MaskInterval(j) == CRISES[(j + 2) \div 3]
MaskKind(j) == ((j - 1) % 3) + 1
MaskMatches(j, date) ==
    IF MaskKind(j) = 1 THEN CrisisMask(date, MaskInterval(j))
    ELSE IF MaskKind(j) = 2 THEN PreMask(date, MaskInterval(j), pre_crisis_months)
    ELSE PostMask(date, MaskInterval(j), post_crisis_months)
MaskRegime(j) ==
    IF MaskKind(j) = 1 THEN "crisis"
    ELSE IF MaskKind(j) = 2 THEN "pre_crisis" ELSE "post_crisis"
IsLastMatch(j, date) ==
    /\ MaskMatches(j, date)
    /\ \A j2 \in MaskNumbers : j2 > j => ~MaskMatches(j2, date)

\* C1: after all intervals have been processed in declaration order (crisis,
\* pre, post mask per interval), each row carries the regime and crisis_name
\* written by the last mask of that sequence that matches its date, and
\* normal / None when no mask matches
C1_LastWriteWins ==
    Labelled =>
        \A p \in LabelledRows :
            /\ \A j \in MaskNumbers :
                   IsLastMatch(j, RowAt(p).Date) =>
                       /\ RowAt(p).regime = MaskRegime(j)
                       /\ RowAt(p).crisis_name = MaskInterval(j).name
            /\ (\A j \in MaskNumbers : ~MaskMatches(j, RowAt(p).Date)) =>
                   /\ RowAt(p).regime = "normal"
                   /\ RowAt(p).crisis_name = None

\* a row matched by masks of two different intervals, labelled by the later
C1_Witness ==
    /\ Labelled
    /\ \E p \in LabelledRows : \E j1, j2 \in MaskNumbers :
           /\ j1 < j2
           /\ MaskInterval(j1).name # MaskInterval(j2).name
           /\ MaskMatches(j1, RowAt(p).Date)
           /\ IsLastMatch(j2, RowAt(p).Date)
           /\ MaskRegime(j1) # MaskRegime(j2)
           /\ RowAt(p).regime = MaskRegime(j2)
           /\ RowAt(p).crisis_name = MaskInterval(j2).name

\* interval k holds the date, and no mask of a later interval matches it
InsideUnshadowed(k, date) ==
    /\ date # NaT
    /\ CRISES[k].start <= date
    /\ date <= CRISES[k].end
    /\ \A j \in MaskNumbers : j > 3 * k => ~MaskMatches(j, date)

\* C2: a row whose date lies in [start, end] of interval K and is matched by
\* no mask of an interval declared after K has regime = crisis, is_crisis = 1
\* and crisis_name = K's name (buffers of zero or more months)
C2_InsideIsCrisis ==
    Labelled =>
        \A p \in LabelledRows : \A k \in 1..Len(CRISES) :
            InsideUnshadowed(k, RowAt(p).Date) =>
                /\ RowAt(p).regime = "crisis"
                /\ RowAt(p).is_crisis = 1
                /\ RowAt(p).crisis_name = CRISES[k].name

\* a row on the last day of an interval that is not the last of the calendar
C2_Witness ==
    /\ Labelled
    /\ pre_crisis_months > 0
    /\ post_crisis_months > 0
    /\ \E p \in LabelledRows : \E k \in 1..Len(CRISES) :
           /\ k < Len(CRISES)
           /\ InsideUnshadowed(k, RowAt(p).Date)
           /\ RowAt(p).Date = CRISES[k].end
           /\ RowAt(p).regime = "crisis"
           /\ RowAt(p).crisis_name = CRISES[k].name

\* the date matches the crisis or the pre mask of some interval
InSomeCrisisOrPre(date) ==
    \E k \in 1..Len(CRISES) :
        CrisisMask(date, CRISES[k]) \/ PreMask(date, CRISES[k], pre_crisis_months)

\* every interval of the calendar has start <= end
WellFormedCalendar == \A k \in 1..Len(CRISES) : CRISES[k].start <= CRISES[k].end

\* C3 as stated: is_high_risk is 1 exactly when the final regime is
\* pre_crisis or crisis, for any calendar and any buffers (read here on the
\* calendars whose intervals all have start <= end)
C3_HighRiskIffFinalRegime ==
    (Labelled /\ WellFormedCalendar) =>
        \A p \in LabelledRows :
            RowAt(p).is_high_risk = 1 <=> RowAt(p).regime \in {"pre_crisis", "crisis"}

\* C3 amended: is_high_risk is 1 when the final regime is pre_crisis or
\* crisis and 0 when it is normal; overall it is 1 exactly when the date
\* matches the crisis or pre mask of some interval, which a row whose final
\* regime is post_crisis can do
C3_HighRiskIffSomeCrisisOrPre ==
    Labelled =>
        \A p \in LabelledRows :
            /\ RowAt(p).is_high_risk \in {0, 1}
            /\ RowAt(p).regime \in {"pre_crisis", "crisis"} => RowAt(p).is_high_risk = 1
            /\ RowAt(p).regime = "normal" => RowAt(p).is_high_risk = 0
            /\ RowAt(p).is_high_risk = 1 <=> InSomeCrisisOrPre(RowAt(p).Date)

\* a row relabelled post_crisis by a later interval, still flagged high risk
C3_Witness ==
    /\ Labelled
    /\ WellFormedCalendar
    /\ \E p \in LabelledRows :
           /\ RowAt(p).regime = "post_crisis"
           /\ RowAt(p).is_crisis = 1
           /\ RowAt(p).is_high_risk = 1

\* C4: in every labelled row is_high_risk is the OR of the row's final
\* is_crisis and is_pre_crisis flags
C4_HighRiskIsOrOfFlags ==
    Labelled =>
        \A p \in LabelledRows :
            /\ RowAt(p).is_high_risk \in {0, 1}
            /\ RowAt(p).is_high_risk = 1 <=>
                   (RowAt(p).is_crisis = 1 \/ RowAt(p).is_pre_crisis = 1)

\* one frame with a crisis row, a pre-crisis row and an unflagged row
C4_Witness ==
    /\ Labelled
    /\ \E p, q, r \in LabelledRows :
           /\ p[1] = q[1] /\ q[1] = r[1]
           /\ RowAt(p).is_crisis = 1 /\ RowAt(p).is_pre_crisis = 0
           /\ RowAt(p).is_high_risk = 1
           /\ RowAt(q).is_crisis = 0 /\ RowAt(q).is_pre_crisis = 1
           /\ RowAt(q).is_high_risk = 1
           /\ RowAt(r).is_crisis = 0 /\ RowAt(r).is_pre_crisis = 0
           /\ RowAt(r).is_high_risk = 0

\* C9: a calendar entry with start > end is rejected before any row is
\* labelled: labelling never completes with such an entry, and no row carries
\* a label written for it
C9_MalformedRejected ==
    \A k \in 1..Len(CRISES) :
        CRISES[k].start > CRISES[k].end =>
            /\ ~Labelled
            /\ \A p \in LabelledRows : RowAt(p).crisis_name # CRISES[k].name

(***************************************************************************)
(* Properties of compute_features.                                         *)
(***************************************************************************)
Featured == pc = "featured"

FeaturedRows ==
    UNION { { <<name, i>> : i \in 1..Len(data_with_features[name]) }
            : name \in DOMAIN data_with_features }
FRow(p) == data_with_features[p[1]][p[2]]
FPrev(p) == data_with_features[p[1]][p[2] - 1]

\* a price that is missing or not positive
MissingOrNonPositive(x) == IsNaN(x) \/ (IsRat(x) /\ x.n <= 0)

\* C5: log_return[0] is missing, and for i >= 1 log_return[i] is missing
\* if and only if price[i] or price[i-1] is missing or non-positive
C5_LogReturnMissingIff ==
    Featured =>
        \A p \in FeaturedRows :
            IF p[2] = 1 THEN IsNaN(FRow(p).log_return)
            ELSE IsNaN(FRow(p).log_return) <=>
                     (MissingOrNonPositive(FRow(p).Close)
                          \/ MissingOrNonPositive(FPrev(p).Close))

\* x <= 0, x = 0 on a defined float cell
CellLeZero(x) == IF x.k = "inf" THEN x.s < 0 ELSE x.n <= 0
CellIsZero(x) == x.k = "rat" /\ x.n = 0

\* the price of row p is a number no earlier price of the series exceeds
AtAllTimePeak(p) ==
    /\ IsRat(FRow(p).Close)
    /\ \A i \in 1..(p[2] - 1) :
           LET c == data_with_features[p[1]][i].Close
           IN IsRat(c) => RatLe(c, FRow(p).Close)

\* C6: a defined drawdown is <= 0, and it is 0 at every row whose price is
\* a new all-time maximum, for any prices (zero, negative, missing included)
C6_DrawdownNonPositive ==
    Featured =>
        \A p \in FeaturedRows :
            ~IsNaN(FRow(p).drawdown) =>
                /\ CellLeZero(FRow(p).drawdown)
                /\ AtAllTimePeak(p) => CellIsZero(FRow(p).drawdown)

\* C7: peak[i] is the maximum of the non-missing prices of price[0..i], the
\* carried-forward previous peak at a row whose price is missing
C7_PeakCarriedForward ==
    Featured =>
        \A p \in FeaturedRows :
            FRow(p).peak = MaxUpTo(Column(data_with_features[p[1]], "Close"), p[2])

(***************************************************************************)
(* Frame properties of the two stages.                                     *)
(***************************************************************************)
\* same keys, same number of rows, same dates in the same order
SameShape(in, out) ==
    /\ DOMAIN out = DOMAIN in
    /\ \A name \in DOMAIN in :
           /\ Len(out[name]) = Len(in[name])
           /\ \A i \in 1..Len(in[name]) : out[name][i].Date = in[name][i].Date

\* every column of the input is a column of the output with the same cells
\* (columns of `except` left aside)
Preserved(in, out, except) ==
    \A name \in DOMAIN in : \A i \in 1..Len(in[name]) :
        \A c \in (DOMAIN in[name][i]) \ except :
            /\ c \in DOMAIN out[name][i]
            /\ out[name][i][c] = in[name][i][c]

\* Close after the numeric coercion: a number or NaN is kept, anything
\* else is missing
CloseCoerced(in, out) ==
    \A name \in DOMAIN in : \A i \in 1..Len(in[name]) :
        IF in[name][i].Close.k \in {"rat", "nan"}
        THEN out[name][i].Close = in[name][i].Close
        ELSE IsNaN(out[name][i].Close)

FeaturesStep == pc = "loaded" /\ pc' = "featured"
LabelStep == pc = "featured" /\ pc' = "labelled"

\* C10 as stated: each stage leaves its input unchanged and returns a new
\* mapping with the same names, row counts and date order, every column of the
\* input keeping its values
C10_StagesPreserveEverything ==
    [][ /\ FeaturesStep =>
               /\ raw_data' = raw_data
               /\ SameShape(raw_data, data_with_features')
               /\ Preserved(raw_data, data_with_features', {})
        /\ LabelStep =>
               /\ data_with_features' = data_with_features
               /\ SameShape(data_with_features, labelled_data')
               /\ Preserved(data_with_features, labelled_data', {}) ]_vars

\* C10 amended: as stated, except that compute_features returns the Close
\* column coerced to numbers (a non-numeric entry becomes missing)
C10_StagesPreserveAllButCoercedClose ==
    [][ /\ FeaturesStep =>
               /\ raw_data' = raw_data
               /\ SameShape(raw_data, data_with_features')
               /\ Preserved(raw_data, data_with_features', {"Close"})
               /\ CloseCoerced(raw_data, data_with_features')
        /\ LabelStep =>
               /\ data_with_features' = data_with_features
               /\ SameShape(data_with_features, labelled_data')
               /\ Preserved(data_with_features, labelled_data', {}) ]_vars

\* both stages have run on a series holding a non-numeric Close entry: the
\* caller's raw frame still holds it, the outputs hold a missing value
C10_Witness ==
    /\ Labelled
    /\ \E name \in DOMAIN raw_data : \E i \in 1..Len(raw_data[name]) :
           /\ raw_data[name][i].Close.k = "str"
           /\ ~("log_return" \in DOMAIN raw_data[name][i])
           /\ IsNaN(data_with_features[name][i].Close)
           /\ ~("regime" \in DOMAIN data_with_features[name][i])
           /\ IsNaN(labelled_data[name][i].Close)
           /\ labelled_data[name][i].Volume = raw_data[name][i].Volume

(***************************************************************************)
(* Properties of run_analysis.                                             *)
(***************************************************************************)
Analysed == pc = "analysed" /\ combined.written

SeriesOrder(name) == CHOOSE i \in 1..Len(INDICES) : INDICES[i] = name
RegimeRank(g) == CHOOSE i \in 1..Len(RegimeOrder) : RegimeOrder[i] = g

\* the regimes that label at least one row of the frame
RegimesIn(df) == { df[i].regime : i \in 1..Len(df) }

\* the cells of one column a set of rows holds, NaN cells left out, as a bag
\* would hold them: (row number, cell) pairs
CellsOf(df, g, col) ==
    { <<i, df[i][col]>> : i \in { j \in 1..Len(df) :
                                     df[j].regime = g /\ ~IsNaN(df[j][col]) } }

RECURSIVE SumCells(_)
SumCells(cells) ==
    IF cells = {} THEN Num(0)
    ELSE LET c == CHOOSE x \in cells : TRUE
         IN RatAdd(c[2], SumCells(cells \ {c}))

\* stats holds the min, the max and the mean of the cells, and a std exactly
\* when there are two cells or more
StatsDescribe(stats, cells) ==
    LET n == Cardinality(cells)
    IN /\ IsNaN(stats.min) <=> n = 0
       /\ IsNaN(stats.max) <=> n = 0
       /\ IsNaN(stats.mean) <=> n = 0
       /\ IsNaN(stats.std) <=> n < 2
       /\ n > 0 =>
              /\ \E c \in cells : c[2] = stats.min
              /\ \A c \in cells : RatLe(stats.min, c[2])
              /\ \E c \in cells : c[2] = stats.max
              /\ \A c \in cells : RatLe(c[2], stats.max)
              /\ RatMul(stats.mean, Num(n)) = SumCells(cells)

\* row r summarises, column by column, the rows of df whose regime is r's
RowDescribes(r, df) ==
    \A n \in 1..Len(ValueColumns) :
        StatsDescribe(r[ValueColumns[n]], CellsOf(df, r.regime, ValueColumns[n]))

AllRows == ConcatFrames(labelled_data, Len(INDICES))

====
